---- MODULE Spec2Model ----
(***************************************************************************)
(* Model of tests/golden-prompts/run_golden_checks.py: the golden prompt   *)
(* scorer (score_case), the reference evaluator                            *)
(* (evaluate_script_numeric_checks), the suite aggregator (build_report)   *)
(* and the exit status of main.                                            *)
(*                                                                         *)
(* Representation.                                                         *)
(*  - A Python float is modelled by an exact rational <<n, d>>, d > 0, in  *)
(*    lowest terms.  Numbers read from a response or from a script's JSON  *)
(*    output are integers counted in hundredths (12.1 is 1210).            *)
(*  - A text is a sequence of lines; a line is a record with its kind      *)
(*    (what the regular expressions of the source see), the word it        *)
(*    carries and the numeric literals on it.                              *)
(*  - A Python dict is a function whose DOMAIN is the set of keys present; *)
(*    a JSON value of unknown type is a tagged record [t |-> ..., v |-> ..]*)
(*  - The section name and the trait labels of the source are Korean; the  *)
(*    model writes them in ASCII ("gajeong" for the assumptions heading).  *)
(***************************************************************************)
EXTENDS Integers, Sequences, FiniteSets, TLC

VARIABLES
    suite,          \* the decoded suite file (input, never changed)
    args,           \* the parsed command line (input, never changed)
    source,         \* the response source as it is on disk (input)
    env,            \* the file system and the behaviour of the scripts (input)
    pc,             \* position of main / build_report
    lint_issues,    \* build_report: lint_issues
    responses,      \* build_report: responses (case id -> text)
    case_results,   \* build_report: case_results
    locals,         \* the frame of the latest score_case call
    script_checks,  \* build_report: script_checks
    proc_log,       \* every external process started so far, in order
    report,         \* the report build_report returned
    exc,            \* the exception that left build_report ("" when none)
    exit_code,      \* what main returned (-1 while it runs)
    call,           \* a direct call of the reference evaluator: its arguments
    ret             \* what that call returned (None while there is none)

vars == << suite, args, source, env, pc, lint_issues, responses, case_results,
           locals, script_checks, proc_log, report, exc, exit_code, call, ret >>

None == [t |-> "none"]

(***************************************************************************)
(* Bounds of the model.                                                    *)
(***************************************************************************)
MaxRows == 3        \* data rows of an assumptions table in a response
MaxCases == 2       \* cases of a suite in the multi-case specification

(***************************************************************************)
(* Exact arithmetic standing for the floats of the source.                 *)
(***************************************************************************)
Abs(n) == IF n < 0 THEN -n ELSE n

Max(a, b) == IF a >= b THEN a ELSE b

Min(a, b) == IF a <= b THEN a ELSE b

RECURSIVE GCD(_, _)
GCD(a, b) == IF b = 0 THEN a ELSE GCD(b, a % b)

Rat(n, d) == LET g == GCD(Abs(n), d) IN << n \div g, d \div g >>

RAdd(a, b) == Rat(a[1] * b[2] + b[1] * a[2], a[2] * b[2])

RMul(a, b) == Rat(a[1] * b[1], a[2] * b[2])

RDiv(a, b) == Rat(a[1] * b[2], a[2] * b[1])

RGeq(a, b) == a[1] * b[2] >= b[1] * a[2]

RZero == << 0, 1 >>

ROne == << 1, 1 >>

\* round(x, 4) for x >= 0: the nearest multiple of 1/10000, a tie to even.
Round4(x) ==
    LET scaled == x[1] * 10000
        q == scaled \div x[2]
        r == scaled % x[2]
        k == IF 2 * r > x[2] THEN q + 1
             ELSE IF 2 * r < x[2] THEN q
             ELSE IF q % 2 = 0 THEN q ELSE q + 1
    IN Rat(k, 10000)

\* A ratio that is 0 where there is nothing to require.
SafeRatioEmptyIsZero(numerator, denominator) ==
    IF denominator <= 0 THEN RZero ELSE Rat(numerator, denominator)

safe_ratio(numerator, denominator) ==
    IF denominator <= 0 THEN ROne ELSE Rat(numerator, denominator)

DEFAULT_CASE_SCORE == Rat(80, 100)

DEFAULT_SUITE_SCORE == Rat(85, 100)


\* The weights with those of sections and keywords exchanged.
ExchangedWeights ==
    [ sections |-> Rat(20, 100), assumptions |-> Rat(10, 100), keywords |-> Rat(35, 100),
      references |-> Rat(20, 100), traits |-> Rat(10, 100), preferred_script |-> Rat(5, 100) ]

DEFAULT_WEIGHTS ==
    [ sections |-> Rat(35, 100), assumptions |-> Rat(10, 100),
      keywords |-> Rat(20, 100), references |-> Rat(20, 100),
      traits |-> Rat(10, 100), preferred_script |-> Rat(5, 100) ]

\* dict.get(key, default)
Get(d, k, default) == IF k \in DOMAIN d THEN d[k] ELSE default

RECURSIVE SeqSum(_)
SeqSum(s) == IF s = << >> THEN 0 ELSE Head(s) + SeqSum(Tail(s))

RECURSIVE Flatten(_)
Flatten(ss) == IF ss = << >> THEN << >> ELSE Head(ss) \o Flatten(Tail(ss))

\* [s[i] for i in range(len(s)) if keep[i]]: a comprehension with a condition.
Filter(s, keep) ==
    LET F[i \in 0..Len(s)] ==
            IF i = 0 THEN << >>
            ELSE IF keep[i] THEN Append(F[i - 1], s[i]) ELSE F[i - 1]
    IN F[Len(s)]

\* sum(1 for i in range(len(s)) if keep[i])
Count(s, keep) == Cardinality({ i \in DOMAIN s : keep[i] })

(***************************************************************************)
(* Texts.                                                                  *)
(***************************************************************************)
Heading(name) == [k |-> "heading", s |-> name, nums |-> << >>]

PipeRow(word, nums) == [k |-> "pipe", s |-> word, nums |-> nums]

SepPipe == [k |-> "seppipe", s |-> "", nums |-> << >>]

SepBare == [k |-> "sepbare", s |-> "", nums |-> << >>]

ListItem(word) == [k |-> "list", s |-> word, nums |-> << >>]

TextLine(word, nums) == [k |-> "text", s |-> word, nums |-> nums]

Blank == [k |-> "blank", s |-> "", nums |-> << >>]

\* str.lower() on the words of the model.
Lower(s) ==
    CASE s = "DPS" -> "dps"
      [] s = "TTK" -> "ttk"
      [] s = "TTK.py" -> "ttk.py"
      [] s = "Guide.md" -> "guide.md"
      [] s = "Summary" -> "summary"
      [] OTHER -> s

\* line.lstrip().startswith("|")
StartsWithPipe(line) == line.k \in {"pipe", "seppipe"}

\* TABLE_SEP_RE.search(line)
MatchesTableSep(line) == line.k \in {"seppipe", "sepbare"}

\* LIST_ROW_RE.search(line)
MatchesListRow(line) == line.k = "list"

\* SECTION_RE matches the line
MatchesSection(line) == line.k = "heading"

\* line.strip() is non-empty
NonBlank(line) == line.k # "blank"

\* The substrings of a line the model distinguishes.
LineTokens(line) ==
    (IF line.s = "" THEN {} ELSE {line.s})
        \cup (IF StartsWithPipe(line) THEN {"|"} ELSE {})
        \cup (IF MatchesSection(line) THEN {"##"} ELSE {})

\* needle in word, for the words of the model: a word holds itself and its
\* proper substrings among the needles the model searches for.
Within(needle, word) ==
    \/ needle = word
    \/ << needle, word >> \in { << "ttk", "ttk.py" >>, << "TTK", "TTK.py" >>,
                                 << "dps", "dps.py" >> }

\* needle.lower() in text.lower()
ContainsLower(text, needle) ==
    \/ needle = ""
    \/ \E i \in DOMAIN text : \E t \in LineTokens(text[i]) : Within(Lower(needle), Lower(t))

\* needle in text
ContainsRaw(text, needle) ==
    \/ needle = ""
    \/ \E i \in DOMAIN text : \E t \in LineTokens(text[i]) : Within(needle, t)

contains_any(text, needles) == \E needle \in needles : ContainsLower(text, needle)

\* section.replace("##", "", 1).strip()
canonical_section(section) ==
    CASE section = "## Summary" -> "Summary"
      [] section = "## gajeong" -> "gajeong"
      [] OTHER -> section

\* str.strip() on a run of lines: the blank lines at both ends go.
RECURSIVE StripLeft(_)
StripLeft(lines) ==
    IF lines = << >> \/ NonBlank(Head(lines)) THEN lines ELSE StripLeft(Tail(lines))

RECURSIVE StripRight(_)
StripRight(lines) ==
    IF lines = << >> \/ NonBlank(lines[Len(lines)]) THEN lines
    ELSE StripRight(SubSeq(lines, 1, Len(lines) - 1))

Strip(lines) == StripRight(StripLeft(lines))

(***************************************************************************)
(* Structural parser.                                                      *)
(***************************************************************************)
parse_sections(text) ==
    LET matches == { i \in DOMAIN text : MatchesSection(text[i]) }
        names == { text[i].s : i \in matches }
        last(name) == CHOOSE i \in matches :
                          /\ text[i].s = name
                          /\ \A j \in matches : text[j].s = name => j <= i
        stop(i) == IF \E j \in matches : j > i
                   THEN (CHOOSE j \in matches : j > i /\ \A h \in matches : h > i => j <= h)
                   ELSE Len(text) + 1
    IN [ name \in names |-> Strip(SubSeq(text, last(name) + 1, stop(last(name)) - 1)) ]

find_missing_sections(text, required_sections) ==
    LET parsed_names == DOMAIN parse_sections(text)
    IN Filter(required_sections,
              [ i \in DOMAIN required_sections |->
                    canonical_section(required_sections[i]) \notin parsed_names ])

\* _count_table_rows once the blank lines are gone
TableRows(filtered) ==
    IF Len(filtered) < 3 THEN 0
    ELSE IF ~ StartsWithPipe(filtered[1]) THEN 0
    ELSE IF ~ MatchesTableSep(filtered[2]) THEN 0
    ELSE Cardinality({ i \in 3..Len(filtered) : StartsWithPipe(filtered[i]) })

count_table_rows(lines) ==
    TableRows(Filter(lines, [ i \in DOMAIN lines |-> NonBlank(lines[i]) ]))

\* count_assumptions once the body of the section is known
FallbackChain(body, table_count, list_count) ==
    IF body = << >> THEN 0
    ELSE IF table_count > 0 THEN table_count
    ELSE IF list_count > 0 THEN list_count
    ELSE Count(body, [ i \in DOMAIN body |-> NonBlank(body[i]) ])

CountInBody(body) ==
    FallbackChain(body, count_table_rows(body),
                  Count(body, [ i \in DOMAIN body |-> MatchesListRow(body[i]) ]))

count_assumptions(text) == CountInBody(Strip(Get(parse_sections(text), "gajeong", << >>)))

(***************************************************************************)
(* Numeric extractor: the numeric literals of a text, in hundredths.       *)
(***************************************************************************)
extract_numbers(text) == Flatten([ i \in DOMAIN text |-> text[i].nums ])

(***************************************************************************)
(* Trait inspector.                                                        *)
(***************************************************************************)
TraitOk(text, trait) ==
    CASE trait = "no_unjustified_magic_numbers" ->
            /\ contains_any(text, {"geungeo", "gijun"})
            /\ contains_any(text, {"magic_number", "parameter", "suchi"})
      [] trait = "impact_metrics_stated" ->
            contains_any(text, {"ttk", "tte", "clear_rate", "win_rate", "levelup_time"})
      [] trait = "log_or_telemetry_proposed" ->
            contains_any(text, {"log", "telemetry_ko", "telemetry", "monitoring"})
      [] trait = "model_choice_explained" ->
            /\ contains_any(text, {"model", "parameter"})
            /\ contains_any(text, {"iyu", "geungeo", "seontaek"})
      [] trait = "numbers_in_table_or_formula" ->
            ContainsRaw(text, "|") \/ ContainsRaw(text, "$") \/ ContainsRaw(text, "=")
      [] trait = "content_economy_impact_checked" ->
            contains_any(text, {"content", "economy", "pageup", "yeonghyang"})
      [] trait = "cause_response_mapping" ->
            contains_any(text, {"cause", "response", "solution"})
      [] trait = "tradeoffs_compared_in_table" ->
            ContainsLower(text, "tradeoff") /\ ContainsRaw(text, "|")
      [] trait = "post_patch_metrics" ->
            /\ contains_any(text, {"geomjeung", "jipyo"})
            /\ contains_any(text, {"log", "ttk", "tte", "clear_rate"})
      [] OTHER -> ContainsLower(text, trait)

\* returns << ratio, missing >>
TraitsResult(traits, missing) ==
    << safe_ratio(Len(traits) - Len(missing), Len(traits)), missing >>

check_traits(text, traits) ==
    TraitsResult(traits, Filter(traits, [ i \in DOMAIN traits |-> ~ TraitOk(text, traits[i]) ]))

(***************************************************************************)
(* JSON values and Python's conversions of them.                           *)
(***************************************************************************)
JNum(n) == [t |-> "num", v |-> n]

JStr(x) == [t |-> "str", v |-> x]

JList(x) == [t |-> "list", v |-> x]

JDict(x) == [t |-> "dict", v |-> x]

\* bool(value)
Truthy(value) ==
    CASE value.t = "none" -> FALSE
      [] value.t = "str" -> value.v # ""
      [] value.t = "num" -> value.v # 0
      [] value.t = "list" -> value.v # << >>
      [] value.t = "dict" -> DOMAIN value.v # {}

\* str.strip() of the strings of the model is empty
BlankStr(x) == x \in {"", " "}

\* The decimal strings of the model, in hundredths.
NumericStrings == [ x \in {"12", "0.5"} |-> IF x = "12" THEN 1200 ELSE 50 ]

\* float(value): [ok, v] with v in hundredths
Float(value) ==
    CASE value.t = "num" -> [ok |-> TRUE, v |-> value.v]
      [] value.t = "str" ->
            IF value.v \in DOMAIN NumericStrings
            THEN [ok |-> TRUE, v |-> NumericStrings[value.v]]
            ELSE [ok |-> FALSE, v |-> 0]
      [] OTHER -> [ok |-> FALSE, v |-> 0]

to_float(value, default) == IF Float(value).ok THEN Float(value).v ELSE default

\* int(value) truncates a float toward zero and refuses a string with a fraction;
\* numbers are in hundredths, the result is a plain integer.
to_int(value, default) ==
    CASE value.t = "num" ->
            IF value.v >= 0 THEN value.v \div 100 ELSE -((-value.v) \div 100)
      [] value.t = "str" /\ value.v \in DOMAIN NumericStrings
                         /\ NumericStrings[value.v] % 100 = 0 ->
            NumericStrings[value.v] \div 100
      [] OTHER -> default

\* path.split("."), each token stripped
PathTokens(path) ==
    CASE path = "result.ttk" -> << "result", "ttk" >>
      [] path = "result..ttk" -> << "result", "", "ttk" >>
      [] path = "result.name" -> << "result", "name" >>
      [] path = "result.nope" -> << "result", "nope" >>
      [] path = "result.ttk.x" -> << "result", "ttk", "x" >>
      [] path = "rows.1" -> << "rows", "1" >>
      [] path = "rows.2" -> << "rows", "2" >>
      [] path = "rows.-1" -> << "rows", "-1" >>
      [] path = "rows.x" -> << "rows", "x" >>
      [] path = "result" -> << "result" >>
      [] OTHER -> << path >>

\* int(token) of a path token: [ok, v]
IntToken(token) ==
    CASE token = "0" -> [ok |-> TRUE, v |-> 0]
      [] token = "1" -> [ok |-> TRUE, v |-> 1]
      [] token = "2" -> [ok |-> TRUE, v |-> 2]
      [] token = "-1" -> [ok |-> TRUE, v |-> -1]
      [] OTHER -> [ok |-> FALSE, v |-> 0]

\* A descent that reads a negative index from the end of the list.
RECURSIVE DescendFromTheEnd(_, _)
DescendFromTheEnd(current, tokens) ==
    IF tokens = << >> THEN [ok |-> TRUE, v |-> current, err |-> ""]
    ELSE LET token == Head(tokens) IN
         IF token = "" THEN DescendFromTheEnd(current, Tail(tokens))
         ELSE IF current.t = "dict"
         THEN IF token \notin DOMAIN current.v
              THEN [ok |-> FALSE, v |-> None, err |-> "KeyError"]
              ELSE DescendFromTheEnd(current.v[token], Tail(tokens))
         ELSE IF current.t = "list"
         THEN IF ~ IntToken(token).ok
              THEN [ok |-> FALSE, v |-> None, err |-> "KeyError"]
              ELSE IF IntToken(token).v < -Len(current.v) \/ IntToken(token).v >= Len(current.v)
              THEN [ok |-> FALSE, v |-> None, err |-> "IndexError"]
              ELSE DescendFromTheEnd(current.v[(IntToken(token).v % Len(current.v)) + 1],
                                     Tail(tokens))
         ELSE [ok |-> FALSE, v |-> None, err |-> "KeyError"]

RECURSIVE Descend(_, _)
Descend(current, tokens) ==
    IF tokens = << >> THEN [ok |-> TRUE, v |-> current, err |-> ""]
    ELSE LET token == Head(tokens) IN
         IF token = "" THEN Descend(current, Tail(tokens))
         ELSE IF current.t = "dict"
         THEN IF token \notin DOMAIN current.v
              THEN [ok |-> FALSE, v |-> None, err |-> "KeyError"]
              ELSE Descend(current.v[token], Tail(tokens))
         ELSE IF current.t = "list"
         THEN IF ~ IntToken(token).ok
              THEN [ok |-> FALSE, v |-> None, err |-> "KeyError"]
              ELSE IF IntToken(token).v < 0 \/ IntToken(token).v >= Len(current.v)
              THEN [ok |-> FALSE, v |-> None, err |-> "IndexError"]
              ELSE Descend(current.v[IntToken(token).v + 1], Tail(tokens))
         ELSE [ok |-> FALSE, v |-> None, err |-> "KeyError"]

value_at_path(payload, path) == Descend(payload, PathTokens(path))

(***************************************************************************)
(* Reference evaluator.                                                    *)
(***************************************************************************)
\* rule.get("path") or rule.get("json_path")
RulePath(rule) ==
    IF Truthy(Get(rule, "path", None)) THEN Get(rule, "path", None)
    ELSE Get(rule, "json_path", None)

\* float(_value_at_path(payload, path)): [ok, v]
Expected(found) == IF found.ok THEN Float(found.v) ELSE [ok |-> FALSE, v |-> 0]

\* A window that is the smaller of the absolute and the relative tolerance.
NarrowestTol100(rule, expected) ==
    Min(100 * Max(0, to_float(Get(rule, "atol", None), 0)),
        Abs(expected) * Max(0, to_float(Get(rule, "rtol", None), 2)))

\* A window in which a positive atol replaces the relative tolerance.
AtolInsteadOfRtol100(rule, expected) ==
    IF to_float(Get(rule, "atol", None), 0) > 0
    THEN 100 * to_float(Get(rule, "atol", None), 0)
    ELSE Abs(expected) * Max(0, to_float(Get(rule, "rtol", None), 2))

\* tol = max(atol, abs(expected) * rtol), times 100 to stay integral
Tol100(rule, expected) ==
    Max(100 * Max(0, to_float(Get(rule, "atol", None), 0)),
        Abs(expected) * Max(0, to_float(Get(rule, "rtol", None), 2)))

\* any(abs(value - expected) <= tol for value in response_numbers)
Hit(response_numbers, expected, tol100) ==
    \E i \in DOMAIN response_numbers : 100 * Abs(response_numbers[i] - expected) <= tol100

Matched(rule, expected, response_numbers) ==
    IF ~ expected.ok THEN [hit |-> FALSE, missing |-> "path_error"]
    ELSE IF Hit(response_numbers, expected.v, Tol100(rule, expected.v))
    THEN [hit |-> TRUE, missing |-> ""]
    ELSE [hit |-> FALSE, missing |-> "out_of_tolerance"]

RuleAtPath(rule, path, payload, response_numbers) ==
    IF path.t # "str" \/ BlankStr(path.v) THEN [hit |-> FALSE, missing |-> "missing_path"]
    ELSE Matched(rule, Expected(value_at_path(payload, path.v)), response_numbers)

\* The loop body for one extract rule: [hit, missing]
RuleOutcome(rule, payload, response_numbers) ==
    IF rule.t # "dict" THEN [hit |-> FALSE, missing |-> "invalid_rule"]
    ELSE RuleAtPath(rule.v, RulePath(rule.v), payload, response_numbers)

\* What subprocess.run did: it raised TimeoutExpired, or it returned.
Timeout == [kind |-> "timeout", returncode |-> 0, stdout |-> None]

Exited(code, out) == [kind |-> "done", returncode |-> code, stdout |-> out]

\* A detail string: its fixed text and the numbers formatted into it.
Detail(text) == [m |-> text, n |-> 0, matched |-> 0, total |-> 0, min |-> 0]

\* [score, passed, details, ran, raised, outcomes]: the returned triple, whether
\* the process was started, whether subprocess.run raised instead of returning,
\* and what the loop over the extract rules found for each rule (empty where
\* the loop was not reached).
EvalResult(score, passed, details, ran) ==
    [score |-> score, passed |-> passed, details |-> details, ran |-> ran, raised |-> FALSE,
     outcomes |-> << >>]

\* min(max(0, _to_int(validation.get("min_matches"), total)), total)
MinMatches(validation, total) ==
    Min(Max(0, to_int(Get(validation, "min_matches", None), total)), total)

\* the end of the function, from "total = len(extract_rules)"
Tally(matched, total, min_matches) ==
    EvalResult(safe_ratio(matched, total), matched >= min_matches,
               [m |-> "matched", n |-> 0, matched |-> matched, total |-> total,
                min |-> min_matches], TRUE)

\* the end of the function, given what the loop found for each rule
Tallied(outcomes, validation) ==
    [ Tally(Cardinality({ i \in DOMAIN outcomes : outcomes[i].hit }), Len(outcomes),
            MinMatches(validation, Len(outcomes)))
      EXCEPT !.outcomes = outcomes ]

\* the loop over the extract rules
MatchRules(rules, validation, payload, response_numbers) ==
    Tallied([ i \in DOMAIN rules |-> RuleOutcome(rules[i], payload, response_numbers) ],
            validation)

\* The same without the test for a response that holds no number.
RunAndMatchAnyResponse(run, extract_rules, validation, response_numbers) ==
    IF run.kind = "timeout"
    THEN [score |-> RZero, passed |-> FALSE, details |-> Detail("TimeoutExpired"),
          ran |-> TRUE, raised |-> TRUE, outcomes |-> << >>]
    ELSE IF run.returncode # 0
    THEN EvalResult(RZero, FALSE, [Detail("script_exit") EXCEPT !.n = run.returncode], TRUE)
    ELSE IF run.stdout.t = "empty"
    THEN EvalResult(RZero, FALSE, Detail("script_empty_stdout"), TRUE)
    ELSE IF run.stdout.t # "json"
    THEN EvalResult(RZero, FALSE, Detail("script_invalid_json"), TRUE)
    ELSE MatchRules(extract_rules.v, validation, run.stdout.v, response_numbers)

\* from subprocess.run on
RunAndMatch(run, extract_rules, validation, response_numbers) ==
    IF run.kind = "timeout"
    THEN [score |-> RZero, passed |-> FALSE, details |-> Detail("TimeoutExpired"),
          ran |-> TRUE, raised |-> TRUE, outcomes |-> << >>]
    ELSE IF run.returncode # 0
    THEN EvalResult(RZero, FALSE, [Detail("script_exit") EXCEPT !.n = run.returncode], TRUE)
    ELSE IF run.stdout.t = "empty"
    THEN EvalResult(RZero, FALSE, Detail("script_empty_stdout"), TRUE)
    ELSE IF run.stdout.t # "json"
    THEN EvalResult(RZero, FALSE, Detail("script_invalid_json"), TRUE)
    ELSE IF response_numbers = << >>
    THEN EvalResult(RZero, FALSE, Detail("no_numeric_values_in_response"), TRUE)
    ELSE MatchRules(extract_rules.v, validation, run.stdout.v, response_numbers)

\* The tests before the run with the extract list looked at before the input.
CheckDescriptorExtractFirst(script, input_rel, extract_rules, validation, response_numbers, e) ==
    IF ~ script.exists
    THEN EvalResult(RZero, FALSE, Detail("script_not_found"), FALSE)
    ELSE IF extract_rules.t # "list" \/ extract_rules.v = << >>
    THEN EvalResult(RZero, FALSE, Detail("invalid_script_validation_extract"), FALSE)
    ELSE IF input_rel.t # "str" \/ BlankStr(input_rel.v)
    THEN EvalResult(RZero, FALSE, Detail("invalid_script_validation_input"), FALSE)
    ELSE IF input_rel.v \notin e.inputs
    THEN EvalResult(RZero, FALSE, Detail("input_not_found"), FALSE)
    ELSE RunAndMatch(script.run, extract_rules, validation, response_numbers)

CheckDescriptor(script, input_rel, extract_rules, validation, response_numbers, e) ==
    IF ~ script.exists
    THEN EvalResult(RZero, FALSE, Detail("script_not_found"), FALSE)
    ELSE IF input_rel.t # "str" \/ BlankStr(input_rel.v)
    THEN EvalResult(RZero, FALSE, Detail("invalid_script_validation_input"), FALSE)
    ELSE IF input_rel.v \notin e.inputs
    THEN EvalResult(RZero, FALSE, Detail("input_not_found"), FALSE)
    ELSE IF extract_rules.t # "list" \/ extract_rules.v = << >>
    THEN EvalResult(RZero, FALSE, Detail("invalid_script_validation_extract"), FALSE)
    ELSE RunAndMatch(script.run, extract_rules, validation, response_numbers)

evaluate_script_numeric_checks(response, preferred_script, validation, e) ==
    CheckDescriptor(e.scripts[preferred_script], Get(validation, "input", None),
                    Get(validation, "extract", None), validation,
                    extract_numbers(response), e)

(***************************************************************************)
(* Case scorer.                                                            *)
(***************************************************************************)
NoBool == [t |-> "none"]

SomeBool(b) == [t |-> "bool", v |-> b]

\* bool(x) of an Optional[bool]
Bool(x) == x.t = "bool" /\ x.v

CheckResult(name, score, passed, details) ==
    [name |-> name, score |-> Round4(score), passed |-> passed, details |-> details]


\* A result for a missing response that is never marked as skipped.
MissingResponseNeverSkipped(case, allow_missing_cases) ==
    [ id |-> Get(case, "id", "UNKNOWN"),
      score |-> RZero,
      passed |-> FALSE,
      skipped |-> FALSE,
      hard_fail_reasons |-> << "missing_response" >>,
      checks |-> << [name |-> "response_presence", score |-> RZero, passed |-> FALSE,
                     details |-> Detail("no_response")] >> ]

\* score_case when response is None
MissingResponseResult(case, allow_missing_cases) ==
    [ id |-> Get(case, "id", "UNKNOWN"),
      score |-> RZero,
      passed |-> FALSE,
      skipped |-> allow_missing_cases,
      hard_fail_reasons |-> IF ~ allow_missing_cases THEN << "missing_response" >> ELSE << >>,
      checks |-> << [name |-> "response_presence", score |-> RZero, passed |-> FALSE,
                     details |-> Detail(IF ~ allow_missing_cases THEN "no_response"
                                        ELSE "no_response_skipped")] >> ]

\* A check computed from what is required and what of it is missing.
RatioCheck(required, missing) ==
    [ score |-> safe_ratio(Len(required) - Len(missing), Len(required)),
      pass |-> Len(missing) = 0,
      missing |-> missing ]

AssumptionsCheck(assumption_count, max_assumptions) ==
    [ score |-> IF assumption_count <= max_assumptions THEN ROne ELSE RZero,
      pass |-> assumption_count <= max_assumptions,
      count |-> assumption_count,
      max |-> max_assumptions ]

TraitsCheck(traits) == [ score |-> traits[1], pass |-> Len(traits[2]) = 0, missing |-> traits[2] ]

\* [kw for kw in required if kw.lower() not in response.lower()]
MissingIn(response, required) ==
    Filter(required, [ i \in DOMAIN required |-> ~ ContainsLower(response, required[i]) ])

NumericCheck(r) ==
    [ score |-> [t |-> "some", v |-> r.score], pass |-> SomeBool(r.passed),
      details |-> r.details, ran |-> r.ran, raised |-> r.raised ]

MentionCheck(mentioned) ==
    [ score |-> [t |-> "some", v |-> IF mentioned THEN ROne ELSE RZero],
      pass |-> SomeBool(mentioned),
      details |-> Detail(IF mentioned THEN "mentioned" ELSE "missing mention"),
      ran |-> FALSE, raised |-> FALSE ]

\* [score, pass, details, ran, raised]: script_score, script_pass and
\* script_details, with score and pass None when no preferred script is declared.
ScriptCheck(response, preferred_script, script_validation, e) ==
    IF ~ Truthy(preferred_script)
    THEN [score |-> None, pass |-> NoBool, details |-> Detail("N/A"),
          ran |-> FALSE, raised |-> FALSE]
    ELSE IF script_validation.t = "dict"
    THEN NumericCheck(evaluate_script_numeric_checks(response, preferred_script.v,
                                                     script_validation.v, e))
    ELSE MentionCheck(ContainsLower(response, preferred_script.v))

\* metric_scores, in insertion order: << name, score >> pairs
MetricScores(sections_score, assumptions_score, keywords_score, refs_score, traits_score, script_score) ==
    << << "sections", sections_score >>, << "assumptions", assumptions_score >>,
       << "keywords", keywords_score >>, << "references", refs_score >>,
       << "traits", traits_score >> >>
    \o (IF script_score.t # "none" THEN << << "preferred_script", script_score.v >> >>
        ELSE << >>)

\* weighted_sum after the loop over metric_scores
WeightedSum(metric_scores) ==
    LET F[i \in 0..Len(metric_scores)] ==
            IF i = 0 THEN RZero
            ELSE RAdd(F[i - 1], RMul(DEFAULT_WEIGHTS[metric_scores[i][1]], metric_scores[i][2]))
    IN F[Len(metric_scores)]

\* total_weight after the loop over metric_scores
TotalWeight(metric_scores) ==
    LET F[i \in 0..Len(metric_scores)] ==
            IF i = 0 THEN RZero ELSE RAdd(F[i - 1], DEFAULT_WEIGHTS[metric_scores[i][1]])
    IN F[Len(metric_scores)]


\* A score that is the weighted sum itself, not divided by the weights present.
QuotientByFullMass(weighted_sum, total_weight) == weighted_sum

Quotient(weighted_sum, total_weight) ==
    IF total_weight[1] > 0 THEN RDiv(weighted_sum, total_weight) ELSE RZero

WeightedScore(metric_scores) ==
    Quotient(WeightedSum(metric_scores), TotalWeight(metric_scores))


\* Hard-fail reasons without the ceiling on the assumptions.
HardFailReasonsWithoutCeiling(sections_pass, assumptions_pass, preferred_script, script_validation, script_pass) ==
    (IF ~ sections_pass THEN << "missing_required_sections" >> ELSE << >>)
    \o (IF Truthy(preferred_script) /\ script_validation.t # "none" /\ ~ Bool(script_pass)
        THEN << "preferred_script_numeric_mismatch" >> ELSE << >>)

HardFailReasons(sections_pass, assumptions_pass, preferred_script, script_validation, script_pass) ==
    (IF ~ sections_pass THEN << "missing_required_sections" >> ELSE << >>)
    \o (IF ~ assumptions_pass THEN << "assumptions_out_of_range" >> ELSE << >>)
    \o (IF Truthy(preferred_script) /\ script_validation.t # "none" /\ ~ Bool(script_pass)
        THEN << "preferred_script_numeric_mismatch" >> ELSE << >>)


\* A verdict that looks at the score alone.
CasePassedByScoreAlone(score, min_case_score, hard_fail_reasons) ==
    RGeq(score, min_case_score)

CasePassed(score, min_case_score, hard_fail_reasons) ==
    RGeq(score, min_case_score) /\ Len(hard_fail_reasons) = 0

\* checks, the list of the returned dict
Checks(sections, assumptions, keywords, refs, traits, script, script_validation) ==
    << CheckResult("sections", sections.score, sections.pass, Detail("sections")),
       CheckResult("assumptions", assumptions.score, assumptions.pass,
                   [m |-> "count", n |-> assumptions.count, matched |-> 0,
                    total |-> 0, min |-> assumptions.max]),
       CheckResult("keywords", keywords.score, keywords.pass, Detail("keywords")),
       CheckResult("references", refs.score, refs.pass, Detail("references")),
       CheckResult("traits", traits.score, traits.pass, Detail("traits")) >>
    \o (IF script.score.t # "none"
        THEN << CheckResult(IF script_validation.t # "none"
                            THEN "preferred_script_numeric" ELSE "preferred_script",
                            script.score.v, Bool(script.pass), script.details) >>
        ELSE << >>)

\* The returned dict and the local variables it was computed from.
Verdict(case, min_case_score, score, hard_fail_reasons, checks, metric_scores, script) ==
    [ result |-> [ id |-> Get(case, "id", "UNKNOWN"),
                   score |-> Round4(score),
                   passed |-> CasePassed(score, min_case_score, hard_fail_reasons),
                   skipped |-> FALSE,
                   hard_fail_reasons |-> hard_fail_reasons,
                   checks |-> checks ],
      frame |-> [ present |-> TRUE, score |-> score, metric_scores |-> metric_scores,
                  script_pass |-> script.pass, min_case_score |-> min_case_score ],
      ran |-> script.ran,
      raised |-> script.raised ]

\* score_case from "metric_scores = {" on
Combine(case, min_case_score, sections, assumptions, keywords, refs, traits, script, metric_scores) ==
    Verdict(case, min_case_score, WeightedScore(metric_scores),
            HardFailReasons(sections.pass, assumptions.pass,
                            Get(case, "preferred_script", None),
                            Get(case, "script_validation", None), script.pass),
            Checks(sections, assumptions, keywords, refs, traits, script,
                   Get(case, "script_validation", None)),
            metric_scores, script)

Scored(case, min_case_score, sections, assumptions, keywords, refs, traits, script) ==
    Combine(case, min_case_score, sections, assumptions, keywords, refs, traits, script,
            MetricScores(sections.score, assumptions.score, keywords.score, refs.score,
                         traits.score, script.score))

\* score_case: [result, frame, ran, raised].  result is the returned dict, frame
\* the local variables the verdict was computed from, ran whether an external
\* process was started, raised whether an exception left the function.
score_case(case, template, response, min_case_score, allow_missing_cases, e) ==
    IF response.t = "none"
    THEN [ result |-> MissingResponseResult(case, allow_missing_cases),
           frame |-> [present |-> FALSE], ran |-> FALSE, raised |-> FALSE ]
    ELSE Scored(case, min_case_score,
                RatioCheck(Get(template, "required_sections", << >>),
                           find_missing_sections(response.v,
                               Get(template, "required_sections", << >>))),
                AssumptionsCheck(count_assumptions(response.v),
                                 Get(template, "max_assumptions", 3)),
                RatioCheck(Get(case, "required_keywords", << >>),
                           MissingIn(response.v, Get(case, "required_keywords", << >>))),
                RatioCheck(Get(case, "required_references", << >>),
                           MissingIn(response.v, Get(case, "required_references", << >>))),
                TraitsCheck(check_traits(response.v, Get(template, "required_traits", << >>))),
                ScriptCheck(response.v, Get(case, "preferred_script", None),
                            Get(case, "script_validation", None), e))

(***************************************************************************)
(* Suite lint.                                                             *)
(***************************************************************************)
\* str(case.get("id", "")).strip()
CaseId(case) == IF BlankStr(Get(case, "id", "")) THEN "" ELSE Get(case, "id", "")

\* The names x for which "x in templates" holds.
TemplateNames(templates) == IF templates.t = "dict" THEN DOMAIN templates.v ELSE {}

LintValidation(case) ==
    LET preferred_script == Get(case, "preferred_script", None)
        script_validation == Get(case, "script_validation", None)
        raw_input == Get(script_validation.v, "input", None)
        extract == Get(script_validation.v, "extract", None)
        has_path(rule) ==
            \/ /\ Get(rule.v, "path", None).t = "str"
               /\ ~ BlankStr(Get(rule.v, "path", None).v)
            \/ /\ Get(rule.v, "json_path", None).t = "str"
               /\ ~ BlankStr(Get(rule.v, "json_path", None).v)
        rule_issue(rule) ==
            IF rule.t # "dict" THEN << "extract rule must be an object" >>
            ELSE IF ~ has_path(rule) THEN << "extract rule requires path or json_path" >>
            ELSE << >>
    IN IF script_validation.t = "none" THEN << >>
       ELSE (IF ~ Truthy(preferred_script)
             THEN << "script_validation requires preferred_script" >> ELSE << >>)
            \o (IF script_validation.t # "dict"
                THEN << "script_validation must be an object" >>
                ELSE (IF raw_input.t # "str" \/ BlankStr(raw_input.v)
                      THEN << "script_validation.input must be a non-empty string" >>
                      ELSE << >>)
                     \o (IF extract.t # "list" \/ extract.v = << >>
                         THEN << "script_validation.extract must be a non-empty array" >>
                         ELSE Flatten([ i \in DOMAIN extract.v |-> rule_issue(extract.v[i]) ])))

\* The issues of one element of suite.cases; seen holds the ids met before it.
LintCase(item, seen, templates) ==
    IF item.t # "dict" THEN << "case must be an object" >>
    ELSE
    LET case == item.v
        case_id == CaseId(case)
        template == Get(case, "expected_template", "")
        missing_key(k) == IF k \in DOMAIN case THEN << >> ELSE << "missing key" >>
    IN (IF case_id = "" THEN << "missing id" >>
        ELSE IF case_id \in seen THEN << "duplicate case id" >> ELSE << >>)
       \o (IF ~ BlankStr(template) /\ template \notin TemplateNames(templates)
           THEN << "unknown expected_template" >> ELSE << >>)
       \o missing_key("prompt") \o missing_key("required_references")
       \o missing_key("required_keywords")
       \o LintValidation(case)

lint_suite(s) ==
    LET templates == Get(s, "templates", None)
        cases == Get(s, "cases", None)
        seen(k) == { CaseId(cases.v[j].v) : j \in { h \in 1..(k - 1) : cases.v[h].t = "dict" } }
                       \ {""}
    IN (IF templates.t # "dict" THEN << "suite.templates must be an object" >> ELSE << >>)
       \o (IF cases.t # "list" THEN << "suite.cases must be an array" >>
           ELSE Flatten([ k \in DOMAIN cases.v |->
                            LintCase(cases.v[k], seen(k),
                                     Get(s, "templates", JDict(<< >>))) ]))

(***************************************************************************)
(* Response sources.                                                       *)
(***************************************************************************)
\* parse_case_ids: None, or the non-empty parts of the comma-separated string
parse_case_ids(raw) ==
    IF ~ Truthy(raw) THEN None
    ELSE JList(CASE raw.v = "A01" -> << "A01" >>
                 [] raw.v = "A02,ZZ" -> << "A02", "ZZ" >>
                 [] raw.v = "," -> << >>
                 [] OTHER -> << raw.v >>)

filter_cases(cases, selected_ids) ==
    IF ~ Truthy(selected_ids) THEN cases
    ELSE Filter(cases, [ i \in DOMAIN cases |->
                           \E j \in DOMAIN selected_ids.v :
                               selected_ids.v[j] = Get(cases[i], "id", "None") ])

\* [ok, v]: the id -> text mapping, or ok = FALSE where ValueError is raised.
\* An item list is a sequence of dicts; a mapping holds texts and nested values.
parse_response_payload(payload) ==
    LET items(list) ==
            LET good == { i \in DOMAIN list :
                            list[i].t = "dict" /\ {"id", "response"} \subseteq DOMAIN list[i].v }
                ids == { list[i].v.id : i \in good }
                last(id) == CHOOSE i \in good :
                                list[i].v.id = id /\ \A j \in good : list[j].v.id = id => j <= i
            IN [ id \in ids |-> list[last(id)].v.response ]
        direct == [ k \in { x \in DOMAIN payload.v : payload.v[x].t \notin {"dict", "list"} }
                      |-> payload.v[k].v ]
    IN IF payload.t = "dict" /\ "responses" \in DOMAIN payload.v
                             /\ payload.v["responses"].t = "dict"
       THEN [ok |-> TRUE, v |-> [ k \in DOMAIN payload.v["responses"].v |->
                                    payload.v["responses"].v[k].v ]]
       ELSE IF payload.t = "dict" /\ "cases" \in DOMAIN payload.v
                                  /\ payload.v["cases"].t = "list"
       THEN [ok |-> TRUE, v |-> items(payload.v["cases"].v)]
       ELSE IF payload.t = "dict" /\ DOMAIN direct # {}
       THEN [ok |-> TRUE, v |-> direct]
       ELSE IF payload.t = "list"
       THEN [ok |-> TRUE, v |-> items(payload.v)]
       ELSE [ok |-> FALSE, v |-> << >>]

SAMPLE_EXTENSIONS == << ".md", ".markdown", ".txt" >>

\* files: << case id, extension >> -> text, the files of the directory
load_responses_from_dir(files, case_ids) ==
    LET found(id) == { i \in DOMAIN SAMPLE_EXTENSIONS :
                         << id, SAMPLE_EXTENSIONS[i] >> \in DOMAIN files }
        first(id) == CHOOSE i \in found(id) : \A j \in found(id) : i <= j
    IN [ id \in { case_ids[i] : i \in { j \in DOMAIN case_ids : found(case_ids[j]) # {} } }
           |-> files[<< id, SAMPLE_EXTENSIONS[first(id)] >>] ]

(***************************************************************************)
(* Batch script health-check.                                              *)
(***************************************************************************)
\* The distinct preferred_script strings of all the cases of the suite, in order.
PreferredScripts(all_cases) ==
    LET named(i) == /\ all_cases[i].t = "dict"
                    /\ Get(all_cases[i].v, "preferred_script", None).t = "str"
                    /\ Get(all_cases[i].v, "preferred_script", None).v # ""
        name(i) == all_cases[i].v.preferred_script.v
        firsts == Filter(all_cases, [ i \in DOMAIN all_cases |->
                      named(i) /\ \A j \in 1..(i - 1) : named(j) => name(j) # name(i) ])
    IN [ i \in DOMAIN firsts |-> firsts[i].v.preferred_script.v ]

\* One pass of the loop body: [passed, details, ran, raised]
ScriptHealth(script, e) ==
    LET run == e.scripts[script].health
    IN IF ~ e.scripts[script].exists
       THEN [script |-> script, passed |-> FALSE, details |-> "file_not_found",
             ran |-> FALSE, raised |-> FALSE]
       ELSE IF run.kind = "timeout"
       THEN [script |-> script, passed |-> FALSE, details |-> "TimeoutExpired",
             ran |-> TRUE, raised |-> TRUE]
       ELSE IF run.returncode # 0
       THEN [script |-> script, passed |-> FALSE, details |-> "exit",
             ran |-> TRUE, raised |-> FALSE]
       ELSE IF run.stdout.t = "empty"
       THEN [script |-> script, passed |-> FALSE, details |-> "empty_stdout",
             ran |-> TRUE, raised |-> FALSE]
       ELSE IF run.stdout.t # "json"
       THEN [script |-> script, passed |-> FALSE, details |-> "invalid_json_output",
             ran |-> TRUE, raised |-> FALSE]
       ELSE [script |-> script, passed |-> TRUE, details |-> "ok",
             ran |-> TRUE, raised |-> FALSE]

\* [value, started, raised]: the returned dict, the scripts started (in order)
\* and whether subprocess.run raised, which ends the loop at that script.
execute_preferred_scripts(s, e) ==
    LET preferred == PreferredScripts(Get(s, "cases", JList(<< >>)).v)
        each == [ i \in DOMAIN preferred |-> ScriptHealth(preferred[i], e) ]
        raising == { i \in DOMAIN each : each[i].raised }
        stop == IF raising = {} THEN Len(each)
                ELSE CHOOSE i \in raising : \A j \in raising : i <= j
        reached == SubSeq(each, 1, stop)
        started == Filter(reached, [ i \in DOMAIN reached |-> reached[i].ran ])
        results == [ i \in DOMAIN each |->
                       [script |-> each[i].script, passed |-> each[i].passed,
                        details |-> each[i].details] ]
        passed_count == Cardinality({ i \in DOMAIN results : results[i].passed })
        total == Len(results)
    IN [ value |-> [ enabled |-> TRUE,
                     score |-> Round4(safe_ratio(passed_count, total)),
                     passed |-> passed_count = total,
                     total |-> total,
                     passed_count |-> passed_count,
                     results |-> results ],
         started |-> [ i \in DOMAIN started |-> started[i].script ],
         raised |-> raising # {} ]

ScriptChecksDisabled ==
    [ enabled |-> FALSE, passed |-> TRUE, score |-> ROne, total |-> 0,
      passed_count |-> 0, results |-> << >> ]

(***************************************************************************)
(* Suite aggregator.                                                       *)
(***************************************************************************)
\* [c for c in all_cases if isinstance(c, dict)], then filter_cases
SelectedCases(s, a) ==
    LET all_cases == Get(s, "cases", JList(<< >>)).v
        dicts == Filter(all_cases, [ i \in DOMAIN all_cases |-> all_cases[i].t = "dict" ])
    IN filter_cases([ i \in DOMAIN dicts |-> dicts[i].v ], parse_case_ids(a.case_ids))

\* templates.get(expected_template, {})
TemplateOf(s, case) ==
    LET templates == Get(s, "templates", JDict(<< >>)).v
    IN Get(templates, Get(case, "expected_template", ""), << >>)

\* responses.get(str(case.get("id")))
ResponseOf(resp, case) ==
    IF Get(case, "id", "None") \in DOMAIN resp
    THEN [t |-> "text", v |-> resp[Get(case, "id", "None")]]
    ELSE None

\* [ok, v]: the responses build_report works with, or ok = FALSE where loading raised
LoadResponses(src, case_ids) ==
    CASE src.t = "file" ->
            IF src.v.t = "unreadable" THEN [ok |-> FALSE, v |-> << >>]
            ELSE parse_response_payload(src.v)
      [] src.t = "dir" -> [ok |-> TRUE, v |-> load_responses_from_dir(src.v, case_ids)]
      [] OTHER -> [ok |-> TRUE, v |-> << >>]


\* The evaluated cases with the skipped ones among them.
EvaluatedWithSkipped(results) == results

EvaluatedCases(results) == Filter(results, [ i \in DOMAIN results |-> ~ results[i].skipped ])

CasesPassed(results) ==
    Cardinality({ i \in DOMAIN EvaluatedCases(results) : EvaluatedCases(results)[i].passed })

RECURSIVE ScoreSum(_)
ScoreSum(results) ==
    IF results = << >> THEN RZero
    ELSE RAdd(ScoreSum(SubSeq(results, 1, Len(results) - 1)), results[Len(results)].score)

SuiteScore(results) ==
    LET evaluated_cases == EvaluatedCases(results)
        evaluated_total == Len(evaluated_cases)
    IN IF evaluated_total > 0
       THEN RDiv(ScoreSum(evaluated_cases), << evaluated_total, 1 >>)
       ELSE RZero


\* An overall verdict that leaves the health-check of the scripts out.
OverallPassedWithoutScripts(lint_passed, evaluated_total, suite_score, min_suite_score, case_passed, scripts_passed) ==
    /\ lint_passed
    /\ evaluated_total > 0
    /\ RGeq(suite_score, min_suite_score)
    /\ case_passed = evaluated_total

OverallPassed(lint_passed, evaluated_total, suite_score, min_suite_score, case_passed, scripts_passed) ==
    /\ lint_passed
    /\ evaluated_total > 0
    /\ RGeq(suite_score, min_suite_score)
    /\ case_passed = evaluated_total
    /\ scripts_passed

Report(s, a, issues, results, checks) ==
    [ suite_lint |-> [passed |-> Len(issues) = 0, issues |-> issues],
      cases |-> results,
      script_checks |-> checks,
      summary |->
          [ cases_total |-> Len(results),
            cases_evaluated |-> Len(EvaluatedCases(results)),
            cases_passed |-> CasesPassed(results),
            suite_score |-> Round4(SuiteScore(results)),
            overall_passed |->
                OverallPassed(Len(issues) = 0, Len(EvaluatedCases(results)),
                              SuiteScore(results), a.min_suite_score,
                              CasesPassed(results), checks.passed) ] ]

(***************************************************************************)
(* main and build_report, step by step.                                    *)
(***************************************************************************)
inputs == << suite, args, source, env >>

\* load_data(suite_path) and the check that it decoded to an object
LoadSuite ==
    /\ pc = "start"
    /\ IF suite.t = "dict"
       THEN pc' = "lint" /\ exc' = exc
       ELSE pc' = "error" /\ exc' = "suite file could not be decoded to an object"
    /\ UNCHANGED << inputs, call, ret, lint_issues, responses, case_results, locals,
                    script_checks, proc_log, report, exit_code >>

LintSuite ==
    /\ pc = "lint"
    /\ lint_issues' = lint_suite(suite.v)
    /\ pc' = "structure"
    /\ UNCHANGED << inputs, call, ret, responses, case_results, locals, script_checks,
                    proc_log, report, exc, exit_code >>


\* A structure check that also refuses a suite without templates or cases.
StructureValidWhenComplete(s) ==
    /\ Get(s, "templates", None).t = "dict"
    /\ Get(s, "cases", None).t = "list"

\* isinstance(templates, dict) and isinstance(all_cases, list)
StructureValid(s) ==
    /\ Get(s, "templates", JDict(<< >>)).t = "dict"
    /\ Get(s, "cases", JList(<< >>)).t = "list"

CheckStructure ==
    /\ pc = "structure"
    /\ IF StructureValid(suite.v)
       THEN pc' = "responses" /\ exc' = exc
       ELSE pc' = "error" /\ exc' = "Suite has invalid templates/cases structure."
    /\ UNCHANGED << inputs, call, ret, lint_issues, responses, case_results, locals,
                    script_checks, proc_log, report, exit_code >>

ReadResponses ==
    /\ pc = "responses"
    /\ LET cases == SelectedCases(suite.v, args)
           loaded == LoadResponses(source, [ i \in DOMAIN cases |-> Get(cases[i], "id", "None") ])
       IN IF loaded.ok
          THEN responses' = loaded.v /\ pc' = "score" /\ exc' = exc
          ELSE responses' = responses /\ pc' = "error"
               /\ exc' = "responses could not be loaded"
    /\ UNCHANGED << inputs, call, ret, lint_issues, case_results, locals, script_checks,
                    proc_log, report, exit_code >>

\* the call of score_case in the loop of build_report
ScoreOf(case) ==
    score_case(case, TemplateOf(suite.v, case), ResponseOf(responses, case),
               args.min_case_score, args.allow_missing_cases, env)

\* A pass of the loop whose result inherits the hard-fail reasons of the result
\* before it, as a list shared between the calls of score_case would.
ScoringWithSharedReasons(case, r) ==
    /\ proc_log' = IF r.ran
                   THEN Append(proc_log, [script |-> case.preferred_script.v, mode |-> "input"])
                   ELSE proc_log
    /\ IF r.raised
       THEN /\ pc' = "error" /\ exc' = "TimeoutExpired"
            /\ UNCHANGED << case_results, locals >>
       ELSE /\ case_results' =
                  Append(case_results,
                         [ r.result EXCEPT !.hard_fail_reasons =
                              (IF case_results = << >> THEN << >>
                               ELSE case_results[Len(case_results)].hard_fail_reasons) \o @ ])
            /\ locals' = r.frame
            /\ UNCHANGED << pc, exc >>

\* what one pass of the loop does with the outcome r of score_case
Scoring(case, r) ==
    /\ proc_log' = IF r.ran
                   THEN Append(proc_log, [script |-> case.preferred_script.v, mode |-> "input"])
                   ELSE proc_log
    /\ IF r.raised
       THEN /\ pc' = "error" /\ exc' = "TimeoutExpired"
            /\ UNCHANGED << case_results, locals >>
       ELSE /\ case_results' = Append(case_results, r.result)
            /\ locals' = r.frame
            /\ UNCHANGED << pc, exc >>

NextCase == SelectedCases(suite.v, args)[Len(case_results) + 1]

\* one pass of the loop over the selected cases
ScoreNextCase ==
    /\ pc = "score"
    /\ Len(case_results) < Len(SelectedCases(suite.v, args))
    /\ Scoring(NextCase, ScoreOf(NextCase))
    /\ UNCHANGED << inputs, call, ret, lint_issues, responses, script_checks, report, exit_code >>

\* what build_report does with the outcome r of execute_preferred_scripts
HealthChecking(r) ==
    /\ proc_log' = proc_log \o [ i \in DOMAIN r.started |->
                                    [script |-> r.started[i], mode |-> "bare"] ]
    /\ IF r.raised
       THEN pc' = "error" /\ exc' = "TimeoutExpired" /\ script_checks' = script_checks
       ELSE pc' = "summary" /\ exc' = exc /\ script_checks' = r.value

\* the batch health-check, or its stand-in when it was not requested
CheckScripts ==
    /\ pc = "score"
    /\ Len(case_results) = Len(SelectedCases(suite.v, args))
    /\ IF args.check_scripts
       THEN HealthChecking(execute_preferred_scripts(suite.v, env))
       ELSE /\ script_checks' = ScriptChecksDisabled
            /\ pc' = "summary"
            /\ UNCHANGED << proc_log, exc >>
    /\ UNCHANGED << inputs, call, ret, lint_issues, responses, case_results, locals,
                    report, exit_code >>

ReturnReport ==
    /\ pc = "summary"
    /\ report' = Report(suite.v, args, lint_issues, case_results, script_checks)
    /\ pc' = "built"
    /\ UNCHANGED << inputs, call, ret, lint_issues, responses, case_results, locals,
                    script_checks, proc_log, exc, exit_code >>

\* main: the report was built
MainReturn ==
    /\ pc = "built"
    /\ exit_code' = IF report.summary.overall_passed THEN 0 ELSE 1
    /\ pc' = "done"
    /\ UNCHANGED << inputs, call, ret, lint_issues, responses, case_results, locals,
                    script_checks, proc_log, report, exc >>

\* main: except Exception
MainError ==
    /\ pc = "error"
    /\ exit_code' = 2
    /\ pc' = "done"
    /\ UNCHANGED << inputs, call, ret, lint_issues, responses, case_results, locals,
                    script_checks, proc_log, report, exc >>

Next ==
    \/ LoadSuite
    \/ LintSuite
    \/ CheckStructure
    \/ ReadResponses
    \/ ScoreNextCase
    \/ CheckScripts
    \/ ReturnReport
    \/ MainReturn
    \/ MainError

(***************************************************************************)
(* The inputs the model runs on.                                           *)
(***************************************************************************)
Text(lines) == [t |-> "text", v |-> lines]

TableBody(n) == << PipeRow("name", << >>), SepPipe >> \o [ i \in 1..n |-> PipeRow("a", << >>) ]

Bodies ==
    { TableBody(n) : n \in 0..MaxRows }
        \cup { << >>,
               << ListItem("a"), Blank, ListItem("b"), TextLine("note", << >>) >>,
               << Blank, TextLine("a", << >>), TextLine("b", << >>), TextLine("c", << >>) >> }

SummaryBlocks == { << >>, << Heading("Summary") >> }

AssumptionBlocks == { << >> } \cup { << Heading("gajeong") >> \o b : b \in Bodies }

Tails ==
    { << >>,
      << TextLine("dps", << >>) >>,
      << TextLine("dps", << >>), TextLine("guide.md", << >>) >>,
      << TextLine("dps", << >>), TextLine("guide.md", << >>), TextLine("tradeoff", << >>) >>,
      << TextLine("dps", << >>), TextLine("guide.md", << >>), TextLine("tradeoff", << >>),
         TextLine("ttk.py", << 1210 >>) >>,
      << TextLine("dps", << >>), TextLine("guide.md", << >>), TextLine("tradeoff", << >>),
         TextLine("x", << 1500 >>) >>,
      << TextLine("ttk.py", << 1210 >>) >> }

Texts == { sb \o tl \o ab : sb \in SummaryBlocks, tl \in Tails, ab \in AssumptionBlocks }

Templates ==
    [ T1 |-> [ required_sections |-> << "Summary", "## gajeong" >>,
               max_assumptions |-> 2,
               required_traits |-> << "tradeoffs_compared_in_table" >> ],
      T2 |-> [ required_sections |-> << "Summary" >> ] ]

SamplePayload ==
    JDict([ result |-> JDict([ ttk |-> JNum(1200), name |-> JStr("x") ]),
            rows |-> JList(<< JNum(500), JNum(700) >>) ])

Rule(path) == JDict([ path |-> JStr(path) ])

Validations ==
    { [ input |-> JStr("sample.json"), extract |-> JList(<< Rule("result.ttk") >>) ],
      [ input |-> JStr("sample.json"),
        extract |-> JList(<< Rule("result.ttk"), Rule("rows.1") >>),
        min_matches |-> JNum(100) ] }

BaseCase(id, template) ==
    [ id |-> id, title |-> "t", category |-> "c", prompt |-> "p",
      expected_template |-> template,
      required_keywords |-> << "DPS" >>, required_references |-> << "Guide.md" >> ]

\* f with key k set to x
With(f, k, x) == [ y \in DOMAIN f \cup {k} |-> IF y = k THEN x ELSE f[y] ]

\* The script declarations of a case that need no external process.
PlainScriptings(case) ==
    { case,
      With(case, "preferred_script", JStr("TTK.py")),
      With(With(case, "preferred_script", JStr("TTK.py")), "script_validation", JStr("oops")),
      With(With(case, "preferred_script", JStr("")), "script_validation",
           CHOOSE v \in { JDict(x) : x \in Validations } : "min_matches" \notin DOMAIN v.v) }

NumericScriptings(case) ==
    { With(With(case, "preferred_script", JStr("TTK.py")), "script_validation", JDict(v)) :
        v \in Validations }

Outcomes ==
    { Exited(0, [t |-> "json", v |-> SamplePayload]),
      Exited(1, [t |-> "empty"]),
      Exited(0, [t |-> "empty"]),
      Exited(0, [t |-> "text"]),
      Timeout }

ScriptNames == { "TTK.py", "dps.py" }

Healthy == Exited(0, [t |-> "json", v |-> SamplePayload])

Env(exists, input_exists, run, health) ==
    [ scripts |-> [ n \in ScriptNames |-> [exists |-> exists, run |-> run, health |-> health] ],
      inputs |-> IF input_exists THEN { "sample.json" } ELSE {} ]

CalmEnv == Env(TRUE, TRUE, Healthy, Healthy)

Args(case_ids, min_case, min_suite, allow_missing, check_scripts) ==
    [ case_ids |-> case_ids, min_case_score |-> min_case, min_suite_score |-> min_suite,
      allow_missing_cases |-> allow_missing, check_scripts |-> check_scripts ]

SuiteOf(templates, cases) ==
    JDict([ suite |-> "golden", version |-> "1", templates |-> templates, cases |-> cases ])

ResponsesFile(map) == [ t |-> "file", v |-> JDict([ responses |-> JDict(map) ]) ]

\* One case, scored against every text: the inputs of score_case in breadth.
InitOneCase ==
    \E template \in { "T1", "T2", "nope" }, min_case \in { DEFAULT_CASE_SCORE, Rat(1, 2) } :
    \E plain \in BOOLEAN :
    \E case \in IF plain
                THEN UNION { PlainScriptings(With(With(BaseCase("A01", template),
                                 "required_keywords", kw), "required_references", refs)) :
                             kw \in { << >>, << "DPS" >>, << "DPS", "TTK" >> },
                             refs \in { << >>, << "Guide.md" >> } }
                ELSE NumericScriptings(BaseCase("A01", template)) :
    /\ suite = SuiteOf(JDict(Templates), JList(<< JDict(case) >>))
    /\ \/ /\ \E text \in Texts : source = ResponsesFile([ A01 |-> Text(text) ])
          /\ args = Args(None, min_case, DEFAULT_SUITE_SCORE, FALSE, FALSE)
       \/ /\ source = ResponsesFile(<< >>)
          /\ \E allow \in BOOLEAN : args = Args(None, min_case, DEFAULT_SUITE_SCORE, allow, FALSE)
    /\ IF plain THEN env = CalmEnv
       ELSE \/ \E run \in Outcomes : env = Env(TRUE, TRUE, run, Healthy)
            \/ env = Env(FALSE, TRUE, Healthy, Healthy)
            \/ env = Env(TRUE, FALSE, Healthy, Healthy)

GoodText ==
    << Heading("Summary"), TextLine("dps", << >>), TextLine("guide.md", << >>),
       TextLine("tradeoff", << >>), TextLine("ttk.py", << 1210 >>),
       Heading("gajeong") >> \o TableBody(2)

PoorText == << Heading("Summary"), TextLine("dps", << >>) >>

CaseItems ==
    { JDict(BaseCase("A01", "T1")),
      JDict(With(BaseCase("A02", "T2"), "preferred_script", JStr("TTK.py"))),
      JDict(With(With(BaseCase("A01", "T1"), "preferred_script", JStr("dps.py")),
                 "script_validation", JDict(CHOOSE v \in Validations : TRUE))),
      JStr("junk") }

RECURSIVE SeqsUpTo(_, _)
SeqsUpTo(S, n) ==
    IF n = 0 THEN { << >> }
    ELSE SeqsUpTo(S, n - 1)
            \cup { Append(q, x) : q \in { r \in SeqsUpTo(S, n - 1) : Len(r) = n - 1 }, x \in S }

Sources ==
    { [ t |-> "none" ],
      ResponsesFile([ A01 |-> Text(GoodText), A02 |-> Text(GoodText) ]),
      ResponsesFile([ A01 |-> Text(GoodText) ]),
      [ t |-> "file", v |-> JDict([ cases |-> JList(<<
            JDict([ id |-> "A01", response |-> PoorText ]),
            JDict([ id |-> "A02", response |-> GoodText ]),
            JDict([ id |-> "A03" ]) >>) ]) ],
      [ t |-> "file", v |-> JStr("text") ],
      [ t |-> "file", v |-> [ t |-> "unreadable" ] ],
      [ t |-> "dir", v |-> [ f \in { << "A01", ".markdown" >>, << "A01", ".txt" >> } |->
                               IF f[2] = ".txt" THEN PoorText ELSE GoodText ] ] }

SuiteEnvs ==
    { CalmEnv,
      Env(TRUE, TRUE, Healthy, Exited(1, [t |-> "empty"])),
      Env(TRUE, TRUE, Healthy, Timeout),
      Env(TRUE, TRUE, Timeout, Healthy),
      Env(FALSE, TRUE, Healthy, Healthy) }

\* Several cases, few texts: the inputs of build_report in breadth.  The suite
\* threshold varies on the runs without a case-id filter.
InitSuite ==
    \/ /\ \E items \in SeqsUpTo(CaseItems, MaxCases) :
              suite = SuiteOf(JDict(Templates), JList(items))
       /\ source \in Sources
       /\ \E ids \in { None, JStr("A01"), JStr("A02,ZZ") }, allow \in BOOLEAN,
             check \in BOOLEAN, min_suite \in { DEFAULT_SUITE_SCORE, Rat(1, 2) } :
              /\ ids # None => min_suite = DEFAULT_SUITE_SCORE
              /\ args = Args(ids, DEFAULT_CASE_SCORE, min_suite, allow, check)
       /\ env \in SuiteEnvs
    \/ /\ suite \in
              { [ t |-> "list" ], [ t |-> "unreadable" ],
                SuiteOf(JList(<< >>), JList(<< JDict(BaseCase("A01", "T1")) >>)),
                SuiteOf(JDict(Templates), JStr("cases")),
                JDict([ suite |-> "golden", cases |-> JList(<< JDict(BaseCase("A01", "T1")) >>) ]),
                JDict([ suite |-> "golden", templates |-> JDict(Templates) ]) }
       /\ source \in Sources
       /\ \E ids \in { None, JStr(",") }, check \in BOOLEAN :
              args = Args(ids, DEFAULT_CASE_SCORE, DEFAULT_SUITE_SCORE, FALSE, check)
       /\ env = CalmEnv

Start ==
    /\ pc = "start"
    /\ lint_issues = << >>
    /\ responses = << >>
    /\ case_results = << >>
    /\ locals = None
    /\ script_checks = None
    /\ proc_log = << >>
    /\ report = None
    /\ exc = ""
    /\ exit_code = -1
    /\ call = None
    /\ ret = None

Init == Start /\ (InitOneCase \/ InitSuite)

Spec == Init /\ [][Next]_vars

(***************************************************************************)
(* Properties of score_case, read off the case the loop scored last.       *)
(***************************************************************************)
LastCase == SelectedCases(suite.v, args)[Len(case_results)]

LastResult == case_results[Len(case_results)]

LastTemplate == TemplateOf(suite.v, LastCase)

LastResponse == ResponseOf(responses, LastCase)

\* The loop has just scored a case, and that case had a response.
Answered == pc = "score" /\ case_results # << >> /\ LastResponse.t # "none"

LastReasons == { LastResult.hard_fail_reasons[i] : i \in DOMAIN LastResult.hard_fail_reasons }

LastDeclaresScript == Truthy(Get(LastCase, "preferred_script", None))

\* The checks of the last result with the given name.
LastChecksNamed(name) == { i \in DOMAIN LastResult.checks : LastResult.checks[i].name = name }

\* C1: for a case with a response, passed holds iff the weighted score is at
\* least min_case_score and hard_fail_reasons is empty; a case whose only
\* hard-fail reason is preferred_script_numeric_mismatch has not passed, also
\* when its weighted score reaches min_case_score.
C1_PassedIffScoreAndNoHardFail ==
    Answered =>
        /\ LastResult.passed <=>
               (RGeq(locals.score, args.min_case_score) /\ LastResult.hard_fail_reasons = << >>)
        /\ LastResult.hard_fail_reasons = << "preferred_script_numeric_mismatch" >>
               => ~ LastResult.passed

\* A case with a score above the minimum that fails on the numeric mismatch alone.
C1_HighScoreFailsOnMismatch ==
    /\ Answered
    /\ LastResult.hard_fail_reasons = << "preferred_script_numeric_mismatch" >>
    /\ RGeq(locals.score, args.min_case_score)
    /\ ~ LastResult.passed

\* The headings of the last response.
LastHeadings ==
    { LastResponse.v[i].s : i \in { j \in DOMAIN LastResponse.v : LastResponse.v[j].k = "heading" } }

WeightPercent ==
    [ sections |-> 35, assumptions |-> 10, keywords |-> 20, references |-> 20,
      traits |-> 10, preferred_script |-> 5 ]

\* The sum of weight * score over the metric scores m.
WeightedTotal(m) ==
    LET F[i \in 0..Len(m)] ==
            IF i = 0 THEN RZero
            ELSE RAdd(F[i - 1], RMul(Rat(WeightPercent[m[i][1]], 100), m[i][2]))
    IN F[Len(m)]

\* The sum of the weights of the metric scores m.
WeightMass(m) ==
    LET F[i \in 0..Len(m)] == IF i = 0 THEN 0 ELSE F[i - 1] + WeightPercent[m[i][1]]
    IN Rat(F[Len(m)], 100)

LastMetricNames == { locals.metric_scores[i][1] : i \in DOMAIN locals.metric_scores }

\* C3: for a case with a response, the score is the sum of weight * score over
\* the checks present divided by the sum of their weights, with the weights
\* 0.35, 0.10, 0.20, 0.20, 0.10 and 0.05; the preferred_script check is present
\* exactly when the case declares a preferred script.  The result reports that
\* score to four decimal places.
C3_ScoreIsWeightedMean ==
    Answered =>
        /\ LastMetricNames =
               { "sections", "assumptions", "keywords", "references", "traits" }
                   \cup (IF LastDeclaresScript THEN { "preferred_script" } ELSE {})
        /\ Len(locals.metric_scores) = Cardinality(LastMetricNames)
        /\ RMul(locals.score, WeightMass(locals.metric_scores))
               = WeightedTotal(locals.metric_scores)
        /\ LastResult.score = Round4(locals.score)

\* A declared script whose check fails while the five other checks score 1.
C3_ScriptCheckWeighsFiveHundredths ==
    /\ Answered
    /\ LastDeclaresScript
    /\ Len(locals.metric_scores) = 6
    /\ locals.score = Rat(95, 100)

\* C4 as the specification states it: without a preferred script the score is
\* bounded by the weight evaluated, 0.95.
C4_ScoreBoundedByEvaluatedMass ==
    (Answered /\ ~ LastDeclaresScript) => RGeq(Rat(95, 100), locals.score)

\* C4 as the code has it: without a preferred script the weights of the five
\* checks are renormalised by their mass, score * 0.95 being the sum of
\* weight * score, so that five checks scoring 1 give a score of exactly 1; no
\* score exceeds 1.
C4_ScoreRenormalised ==
    (Answered /\ ~ LastDeclaresScript) =>
        /\ Len(locals.metric_scores) = 5
        /\ RMul(locals.score, Rat(95, 100)) = WeightedTotal(locals.metric_scores)
        /\ (\A i \in DOMAIN locals.metric_scores : locals.metric_scores[i][2] = ROne)
               => locals.score = ROne /\ LastResult.score = ROne
        /\ RGeq(ROne, locals.score)

\* No preferred script and five checks scoring 1: the score is 1.
C4_FullScoreWithoutScript ==
    /\ Answered
    /\ ~ LastDeclaresScript
    /\ \A i \in DOMAIN locals.metric_scores : locals.metric_scores[i][2] = ROne
    /\ LastResult.score = ROne

\* C5: where the preferred-script check is the mention fallback (a script is
\* declared and the reference evaluator is not called), the check passes iff
\* the response holds the name of the script, case-insensitively, and
\* preferred_script_numeric_mismatch is no hard-fail reason, whatever
\* script_validation is.
C5_MentionFallbackNeverHardFails ==
    (/\ Answered
     /\ LastDeclaresScript
     /\ Get(LastCase, "script_validation", None).t # "dict") =>
        /\ Bool(locals.script_pass) <=>
               ContainsLower(LastResponse.v, LastCase.preferred_script.v)
        /\ "preferred_script_numeric_mismatch" \notin LastReasons

(***************************************************************************)
(* Properties of build_report and main.                                    *)
(***************************************************************************)
\* The case the i-th result was computed for has no response.
Unanswered(i) == ResponseOf(responses, SelectedCases(suite.v, args)[i]).t = "none"

\* C6: a case with no response gets score 0 and passed = false; with
\* allow_missing_cases it is skipped and has no hard-fail reason, without it it
\* is not skipped and has the one reason missing_response.  Over all results,
\* skipped holds only for unanswered cases of a run with allow_missing_cases.
C6_MissingResponseResult ==
    \A i \in DOMAIN case_results :
        /\ Unanswered(i) =>
               /\ case_results[i].score = RZero
               /\ ~ case_results[i].passed
               /\ case_results[i].skipped = args.allow_missing_cases
               /\ case_results[i].hard_fail_reasons =
                      IF args.allow_missing_cases THEN << >> ELSE << "missing_response" >>
        /\ case_results[i].skipped => Unanswered(i) /\ args.allow_missing_cases

\* An unanswered case that was skipped, next to an answered one that was not.
C6_SkippedNextToScored ==
    /\ \E i \in DOMAIN case_results :
           Unanswered(i) /\ case_results[i].skipped /\ case_results[i].hard_fail_reasons = << >>
    /\ \E i \in DOMAIN case_results : ~ Unanswered(i) /\ ~ case_results[i].skipped

\* build_report has returned its report.
Reported == pc = "built" \/ (pc = "done" /\ exit_code # 2)

\* The results of the report that are not skipped.
Kept == { i \in DOMAIN report.cases : ~ report.cases[i].skipped }

\* The sum of the scores of the results with an index in S.
ScoreTotal(results, S) ==
    LET F[i \in 0..Len(results)] ==
            IF i = 0 THEN RZero
            ELSE IF i \in S THEN RAdd(F[i - 1], results[i].score) ELSE F[i - 1]
    IN F[Len(results)]

\* The mean of the scores of the results that are not skipped, 0 without any.
KeptMean ==
    IF Kept = {} THEN RZero
    ELSE RDiv(ScoreTotal(report.cases, Kept), << Cardinality(Kept), 1 >>)

\* C7: a skipped case counts in neither cases_passed nor cases_evaluated nor
\* the suite score: suite_score is the mean of the scores of exactly the
\* results that are not skipped (0 when there are none), reported to four
\* decimal places, and cases_passed counts the results that are not skipped
\* and have passed.
C7_SkippedCasesLeftOut ==
    Reported =>
        /\ report.cases = case_results
        /\ report.summary.cases_total = Len(case_results)
        /\ report.summary.cases_evaluated = Cardinality(Kept)
        /\ report.summary.cases_passed = Cardinality({ i \in Kept : report.cases[i].passed })
        /\ report.summary.suite_score = Round4(KeptMean)

\* A report over one skipped and one scored case: the suite score is the score
\* of the scored case.
C7_OneSkippedOneScored ==
    /\ Reported
    /\ Len(report.cases) = 2
    /\ \E i \in DOMAIN report.cases : report.cases[i].skipped
    /\ \E i \in Kept : /\ report.summary.suite_score = report.cases[i].score
                       /\ report.cases[i].score # RZero
    /\ report.summary.cases_evaluated = 1
    /\ report.summary.cases_passed = 1

\* C8: overall_passed holds iff the lint found no issue, at least one case was
\* evaluated, the suite score is at least min_suite_score, every evaluated
\* case passed, and the health-check of the scripts passed, which it does when
\* it was not requested.
C8_OverallPassed ==
    Reported =>
        (report.summary.overall_passed <=>
            /\ lint_suite(suite.v) = << >>
            /\ Kept # {}
            /\ RGeq(KeptMean, args.min_suite_score)
            /\ \A i \in Kept : report.cases[i].passed
            /\ args.check_scripts =>
                   \A i \in DOMAIN report.script_checks.results :
                       report.script_checks.results[i].passed)

\* A run that passed overall with a health-check that ran a script.
C8_PassedWithHealthCheck ==
    /\ Reported
    /\ report.summary.overall_passed
    /\ args.check_scripts
    /\ report.script_checks.total > 0
    /\ proc_log # << >>

\* templates, where the suite has it, is an object and cases, where the suite
\* has it, is an array.
WellFormed ==
    /\ suite.t = "dict"
    /\ "templates" \in DOMAIN suite.v => suite.v.templates.t = "dict"
    /\ "cases" \in DOMAIN suite.v => suite.v.cases.t = "list"

\* The response source can be loaded.
Loadable ==
    LET cases == SelectedCases(suite.v, args)
    IN LoadResponses(source, [ i \in DOMAIN cases |-> Get(cases[i], "id", "None") ]).ok

\* C9: no failure while a case is scored aborts the run: for a structurally
\* valid suite and response source a timeout or a non-zero exit of an external
\* process is turned into a failed check, build_report returns a report with a
\* result for every selected case, and main does not take its error exit.
C9_ScoringFailuresNotFatal ==
    (pc = "done" /\ WellFormed /\ Loadable) =>
        /\ exit_code # 2
        /\ Len(report.cases) = Len(SelectedCases(suite.v, args))

MaxRules == 2       \* extract rules of a script_validation in a direct call

\* An extract rule on path with the given atol and rtol (None: key absent).
RuleWith(path, atol, rtol) ==
    JDict(LET r0 == [ path |-> JStr(path) ]
              r1 == IF atol.t = "none" THEN r0 ELSE With(r0, "atol", atol)
          IN IF rtol.t = "none" THEN r1 ELSE With(r1, "rtol", rtol))

Atols == { None, JNum(-100), JNum(50), JNum(300) }

Rtols == { None, JNum(0), JNum(25), JStr("x") }

\* Rules on the same path that differ in their tolerances.
TolRules ==
    { RuleWith("result.ttk", t[1], t[2]) :
        t \in { << None, None >>, << JNum(-100), JNum(0) >>, << JNum(50), None >>,
                << None, JNum(25) >>, << JNum(300), JStr("x") >>, << JNum(50), JNum(0) >> } }

\* Rules that match, fail on their path, or are no rules, for the tally.
TallyRules == { Rule("result.ttk"), Rule("rows.1"), Rule("result.nope"), JStr("junk") }

PathRules ==
    { Rule(path) : path \in { "result.ttk", "result..ttk", "result.name", "result.nope",
                              "result.ttk.x", "rows.1", "rows.2", "rows.-1", "rows.x",
                              "result" } }
        \cup { JStr("junk"),
               JDict([ name |-> JStr("n") ]),
               JDict([ path |-> JStr(" ") ]),
               JDict([ path |-> JNum(500) ]),
               JDict([ json_path |-> JStr("rows.1") ]),
               JDict([ path |-> JStr(""), json_path |-> JStr("result.ttk") ]) }

\* The values of min_matches: absent, 0, 1, 1.5, -1, 3, "x", "12".
MinMatchesValues ==
    { None, JNum(0), JNum(100), JNum(150), JNum(-100), JNum(300), JStr("x"), JStr("12") }

\* Responses by the numbers they hold.
NumberTexts ==
    { << TextLine("x", << >>) >>,
      << TextLine("ttk", << 1210 >>) >>,
      << TextLine("ttk", << 1200 >>) >>,
      << TextLine("ttk", << 1250 >>), PipeRow("a", << 700 >>) >>,
      << TextLine("ttk", << 1500 >>) >> }

\* A script_validation with the given input, extract and min_matches (None: absent).
ValidationWith(input, extract, min_matches) ==
    LET v0 == << >>
        v1 == IF input.t = "none" THEN v0 ELSE With(v0, "input", input)
        v2 == IF extract.t = "none" THEN v1 ELSE With(v1, "extract", extract)
    IN IF min_matches.t = "none" THEN v2 ELSE With(v2, "min_matches", min_matches)

Call(response, validation) ==
    [ response |-> response, preferred_script |-> "TTK.py", validation |-> validation ]

\* What a script can do when it is run, the five outcomes and two more exits.
DirectOutcomes ==
    Outcomes \cup { Exited(2, [t |-> "empty"]), Exited(1, [t |-> "json", v |-> SamplePayload]) }

\* Calls that reach the loop over the rules, and calls that fail before it.
EvalInit ==
    /\ pc = "call"
    /\ ret = << >>
    /\ suite = None /\ args = None /\ source = None
    /\ lint_issues = << >> /\ responses = << >> /\ case_results = << >>
    /\ locals = None /\ script_checks = None /\ proc_log = << >> /\ report = None
    /\ exc = "" /\ exit_code = -1
    /\ \/ /\ env = CalmEnv
          /\ \/ \E text \in { << TextLine("ttk", << 1200 >>) >>, << PipeRow("a", << 700 >>) >> },
                   rules \in SeqsUpTo(PathRules, MaxRules) :
                       call = Call(text, ValidationWith(JStr("sample.json"), JList(rules), None))
             \/ \E text \in NumberTexts, rules \in SeqsUpTo(TallyRules, MaxRules),
                   m \in MinMatchesValues :
                       call = Call(text, ValidationWith(JStr("sample.json"), JList(rules), m))
             \/ \E text \in NumberTexts, rules \in SeqsUpTo(TolRules, MaxRules) :
                       call = Call(text, ValidationWith(JStr("sample.json"), JList(rules), None))
       \/ /\ \E exists \in BOOLEAN, input_exists \in BOOLEAN, run \in DirectOutcomes :
                env = Env(exists, input_exists, run, Healthy)
          /\ \E text \in { << TextLine("x", << >>) >>, << TextLine("ttk", << 1200 >>) >> },
                input \in { None, JStr(" "), JNum(500), JStr("sample.json"), JStr("other.json") },
                extract \in { None, JList(<< >>), JStr("x"), JList(<< Rule("result.ttk") >>) },
                m \in { None, JNum(0) } :
                call = Call(text, ValidationWith(input, extract, m))

\* what the caller sees of the outcome r of the call c
Returning(c, r) ==
    /\ proc_log' = IF r.ran
                   THEN Append(proc_log, [script |-> c.preferred_script, mode |-> "input"])
                   ELSE proc_log
    /\ IF r.raised
       THEN pc' = "raised" /\ exc' = "TimeoutExpired" /\ ret' = ret
       ELSE pc' = "returned" /\ exc' = exc /\ ret' = Append(ret, [call |-> c, result |-> r])

\* evaluate_script_numeric_checks(response, preferred_script, validation, ...)
Evaluate ==
    /\ pc = "call"
    /\ Returning(call, evaluate_script_numeric_checks(call.response, call.preferred_script,
                                                      call.validation, env))
    /\ UNCHANGED << inputs, call, lint_issues, responses, case_results, locals,
                    script_checks, report, exit_code >>

\* atol and rtol of a rule as the evaluator reads them, before the clamp
GivenAtol(rule) == to_float(Get(rule, "atol", None), 0)

GivenRtol(rule) == to_float(Get(rule, "rtol", None), 2)

\* The call c with atol and rtol of its i-th rule set to a and r.
Widened(c, i, a, r) ==
    [ c EXCEPT !.validation =
        With(c.validation, "extract",
             JList([ c.validation.extract.v EXCEPT ![i] =
                        JDict(With(With(@.v, "atol", a), "rtol", r)) ])) ]

\* The same call again, with atol and rtol of one rule not lowered and one of
\* them raised.
Widen ==
    /\ pc = "returned"
    /\ Len(ret) = 1
    /\ ret[1].result.outcomes # << >>
    /\ \E i \in DOMAIN call.validation.extract.v, a \in Atols \ { None }, r \in Rtols \ { None } :
          /\ call.validation.extract.v[i].t = "dict"
          /\ to_float(a, 0) >= GivenAtol(call.validation.extract.v[i].v)
          /\ to_float(r, 2) >= GivenRtol(call.validation.extract.v[i].v)
          /\ \/ to_float(a, 0) > GivenAtol(call.validation.extract.v[i].v)
             \/ to_float(r, 2) > GivenRtol(call.validation.extract.v[i].v)
          /\ call' = Widened(call, i, a, r)
          /\ Returning(call', evaluate_script_numeric_checks(call'.response,
                                                             call'.preferred_script,
                                                             call'.validation, env))
    /\ UNCHANGED << inputs, lint_issues, responses, case_results, locals,
                    script_checks, report, exit_code >>

EvalNext ==
    \/ Evaluate
    \/ Widen

EvalSpec == EvalInit /\ [][EvalNext]_vars

(***************************************************************************)
(* Properties of the reference evaluator, over the behaviours of EvalSpec. *)
(***************************************************************************)
\* The extract rules, the response numbers and the per-rule outcomes of the
\* k-th returned call.
RulesOf(k) == ret[k].call.validation.extract.v

NumbersOf(k) == extract_numbers(ret[k].call.response)

OutcomesOf(k) == ret[k].result.outcomes

\* The value a rule expects, where the rule names a path that resolves in the
\* payload to something float() accepts: [ok, v].
ExpectedOf(rule) ==
    IF rule.t # "dict" THEN [ok |-> FALSE, v |-> 0]
    ELSE IF RulePath(rule.v).t # "str" \/ BlankStr(RulePath(rule.v).v) THEN [ok |-> FALSE, v |-> 0]
    ELSE Expected(value_at_path(SamplePayload, RulePath(rule.v).v))

NonNegative(x) == IF x < 0 THEN 0 ELSE x

\* |v - expected| <= max(atol, |expected| * rtol), on hundredths: the distance
\* is within the absolute tolerance or within the relative one.
InWindow(v, expected, atol, rtol) ==
    \/ Abs(v - expected) <= NonNegative(atol)
    \/ 100 * Abs(v - expected) <= Abs(expected) * NonNegative(rtol)

SomeNumberInWindow(numbers, expected, rule) ==
    \E j \in DOMAIN numbers :
        InWindow(numbers[j], expected, GivenAtol(rule.v), GivenRtol(rule.v))

\* C11: a rule whose expected value resolves is matched if and only if some
\* response number v has |v - expected| <= max(atol, |expected| * rtol), with
\* atol and rtol clamped at 0 and rtol 0.02 when absent; a response number equal
\* to expected is therefore always matched.
C11_MatchedIffInWindow ==
    \A k \in DOMAIN ret : \A i \in DOMAIN OutcomesOf(k) :
        ExpectedOf(RulesOf(k)[i]).ok =>
            /\ OutcomesOf(k)[i].hit
                  <=> SomeNumberInWindow(NumbersOf(k), ExpectedOf(RulesOf(k)[i]).v, RulesOf(k)[i])
            /\ (\E j \in DOMAIN NumbersOf(k) : NumbersOf(k)[j] = ExpectedOf(RulesOf(k)[i]).v)
                  => OutcomesOf(k)[i].hit

\* expected 12.0 with the default rtol 0.02 is matched by the response number 12.1
C11_TwelvePointOneMatchesTwelve ==
    \E k \in DOMAIN ret : \E i \in DOMAIN OutcomesOf(k) :
        /\ RulesOf(k)[i] = Rule("result.ttk")
        /\ ExpectedOf(RulesOf(k)[i]) = [ok |-> TRUE, v |-> 1200]
        /\ NumbersOf(k) = << 1210 >>
        /\ OutcomesOf(k)[i].hit

\* the number of rules the k-th returned call matched
MatchedCount(k) == Cardinality({ i \in DOMAIN OutcomesOf(k) : OutcomesOf(k)[i].hit })

\* The second returned call is the first one with one rule's atol and rtol not
\* lowered and one of them raised.
WidenedAgain == Len(ret) = 2 /\ OutcomesOf(1) # << >> /\ OutcomesOf(2) # << >>

\* C12: monotonic widening: with the payload and the response numbers fixed, a
\* rule matched with (atol, rtol) is matched with any atol' >= atol and
\* rtol' >= rtol, so the matched count never decreases when a tolerance is raised.
C12_WideningKeepsMatches ==
    WidenedAgain =>
        /\ \A i \in DOMAIN OutcomesOf(1) : OutcomesOf(1)[i].hit => OutcomesOf(2)[i].hit
        /\ MatchedCount(2) >= MatchedCount(1)
        /\ RGeq(ret[2].result.score, ret[1].result.score)

\* a raised tolerance turned an unmatched rule into a matched one
C12_WideningGainsAMatch ==
    /\ WidenedAgain
    /\ MatchedCount(2) > MatchedCount(1)
    /\ \E i \in DOMAIN OutcomesOf(1) :
          /\ ~ OutcomesOf(1)[i].hit /\ OutcomesOf(1)[i].missing = "out_of_tolerance"
          /\ OutcomesOf(2)[i].hit

\* The threshold as the claim reads min_matches: an integer clamped into
\* [0, total], and total when min_matches is absent or not an integer.
StatedMin(min_matches, total) ==
    IF min_matches.t = "num" /\ min_matches.v % 100 = 0
    THEN (IF min_matches.v < 0 THEN 0
          ELSE IF min_matches.v \div 100 > total THEN total
          ELSE min_matches.v \div 100)
    ELSE total

\* C13: when the external computation succeeds and the response holds a number,
\* score = matched_count / total_rules, total_rules counting every entry of the
\* extract list, and passed = (matched_count >= m), m being min_matches clamped
\* into [0, total_rules] and total_rules when min_matches is absent or not an
\* integer.
C13_ScoreAndThreshold ==
    \A k \in DOMAIN ret :
        OutcomesOf(k) # << >> =>
            /\ Len(OutcomesOf(k)) = Len(RulesOf(k))
            /\ \A i \in DOMAIN OutcomesOf(k) : ~ ExpectedOf(RulesOf(k)[i]).ok => ~ OutcomesOf(k)[i].hit
            /\ ret[k].result.score = safe_ratio(MatchedCount(k), Len(RulesOf(k)))
            /\ ret[k].result.passed
                  <=> MatchedCount(k) >= StatedMin(Get(ret[k].call.validation, "min_matches", None),
                                                   Len(RulesOf(k)))

\* The k-th returned call ran the external computation, which exited with 0 and
\* printed a JSON value.
RanWell(k) ==
    /\ ret[k].result.ran
    /\ env.scripts[ret[k].call.preferred_script].run = Healthy

\* C14: after a successful run of the external computation, a response without
\* a numeric token gives score 0, passed = false and the detail
\* no_numeric_values_in_response, whatever the extract rules and min_matches
\* (0 included).
C14_NoNumbersScoresZero ==
    \A k \in DOMAIN ret :
        (RanWell(k) /\ NumbersOf(k) = << >>) =>
            /\ ret[k].result.score = RZero
            /\ ~ ret[k].result.passed
            /\ ret[k].result.details.m = "no_numeric_values_in_response"
            /\ OutcomesOf(k) = << >>

\* a response without numbers, two extract rules and min_matches = 0
C14_NoNumbersWithMinZero ==
    \E k \in DOMAIN ret :
        /\ RanWell(k)
        /\ NumbersOf(k) = << >>
        /\ Len(RulesOf(k)) = 2
        /\ Get(ret[k].call.validation, "min_matches", None) = JNum(0)
        /\ ~ ret[k].result.passed

(***************************************************************************)
(* Properties of the structural parser and the scores, over Spec.          *)
(***************************************************************************)
\* The lines of the last response below its "gajeong" heading, where it has one
\* and no other heading follows it.
LastAssumptionLines ==
    LET lines == LastResponse.v
        at == { i \in DOMAIN lines : lines[i].k = "heading" /\ lines[i].s = "gajeong" }
    IN IF at = {} \/ (\E i \in at, j \in DOMAIN lines : j > i /\ lines[j].k = "heading")
       THEN None
       ELSE JList(SubSeq(lines, (CHOOSE i \in at : TRUE) + 1, Len(lines)))

\* the number of assumptions the last result reports
LastAssumptionCount ==
    LET i == CHOOSE j \in LastChecksNamed("assumptions") : TRUE
    IN LastResult.checks[i].details.n

\* C15: for every N >= 0, a "gajeong" section whose body is a table (a header
\* row, a separator row, then N data rows) counts as exactly N assumptions,
\* whatever the lines elsewhere in the response.
C15_TableCountsItsDataRows ==
    (Answered /\ LastAssumptionLines.t = "list") =>
        \A n \in 0..Len(LastResponse.v) :
            LastAssumptionLines.v = TableBody(n) => LastAssumptionCount = n

\* q is a rational in [0, 1]
InUnit(q) == q[2] > 0 /\ 0 <= q[1] /\ q[1] <= q[2]

\* the score of the check of the last result with the given name
LastScoreOf(name) == LastResult.checks[CHOOSE i \in LastChecksNamed(name) : TRUE].score

\* C16: every check result's score lies in [0, 1], and so do the weighted case
\* score and the suite score; a check whose requirement list is empty scores 1.0.
C16_ScoresInUnitInterval ==
    /\ \A i \in DOMAIN case_results :
          /\ InUnit(case_results[i].score)
          /\ \A j \in DOMAIN case_results[i].checks : InUnit(case_results[i].checks[j].score)
    /\ Answered =>
          /\ InUnit(locals.score)
          /\ Get(LastTemplate, "required_sections", << >>) = << >> => LastScoreOf("sections") = ROne
          /\ Get(LastTemplate, "required_traits", << >>) = << >> => LastScoreOf("traits") = ROne
          /\ Get(LastCase, "required_keywords", << >>) = << >> => LastScoreOf("keywords") = ROne
          /\ Get(LastCase, "required_references", << >>) = << >> => LastScoreOf("references") = ROne
    /\ Reported => InUnit(report.summary.suite_score)

\* a case whose template requires no trait, scored between 0 and 1
C16_NoTraitRequiredScoresOne ==
    /\ Answered
    /\ Get(LastTemplate, "required_traits", << >>) = << >>
    /\ LastScoreOf("traits") = ROne
    /\ LastScoreOf("keywords") = RZero
    /\ locals.score # ROne /\ locals.score # RZero

(***************************************************************************)
(* Properties of the descent into the payload, over EvalSpec.              *)
(***************************************************************************)
\* One step of the descent as stated: [ok, v]
StatedStep(current, token) ==
    IF current.t = "dict"
    THEN (IF token \in DOMAIN current.v THEN [ok |-> TRUE, v |-> current.v[token]]
          ELSE [ok |-> FALSE, v |-> None])
    ELSE IF current.t = "list"
    THEN (IF IntToken(token).ok /\ IntToken(token).v \in 0..(Len(current.v) - 1)
          THEN [ok |-> TRUE, v |-> current.v[IntToken(token).v + 1]]
          ELSE [ok |-> FALSE, v |-> None])
    ELSE [ok |-> FALSE, v |-> None]

\* The descent as stated, token by token over the non-empty tokens of the path.
StatedDescent(payload, path) ==
    LET tokens == SelectSeq(PathTokens(path), LAMBDA t : t # "")
        D[i \in 0..Len(tokens)] ==
            IF i = 0 THEN [ok |-> TRUE, v |-> payload]
            ELSE IF ~ D[i - 1].ok THEN D[i - 1]
            ELSE StatedStep(D[i - 1].v, tokens[i])
    IN D[Len(tokens)]

\* The outcome stated for a rule with a path: unmatched as path_error where the
\* descent errors or reaches no number, else matched iff a response number is
\* in the window of the value reached.
StatedOutcome(rule, reached, numbers, outcome) ==
    IF ~ reached.ok \/ ~ Float(reached.v).ok
    THEN outcome = [hit |-> FALSE, missing |-> "path_error"]
    ELSE /\ outcome.hit <=> SomeNumberInWindow(numbers, Float(reached.v).v, rule)
         /\ outcome.missing = (IF outcome.hit THEN "" ELSE "out_of_tolerance")

HasPath(rule) == rule.t = "dict" /\ RulePath(rule.v).t = "str" /\ ~ BlankStr(RulePath(rule.v).v)

\* C17: _value_at_path descends token by token: at a dict by key, an error if
\* the key is missing; at a list by integer index, an error if the token is no
\* integer or the index is outside [0, len - 1]; at a scalar with a token left,
\* an error; it returns the value reached when the tokens are exhausted.  A rule
\* whose path errors or whose value converts to no number is reported unmatched,
\* and the rules after it are evaluated all the same.
C17_DescentAndPathErrors ==
    \A k \in DOMAIN ret :
        OutcomesOf(k) # << >> =>
            /\ DOMAIN OutcomesOf(k) = DOMAIN RulesOf(k)
            /\ \A i \in DOMAIN OutcomesOf(k) :
                  HasPath(RulesOf(k)[i]) =>
                      StatedOutcome(RulesOf(k)[i],
                                    StatedDescent(SamplePayload, RulePath(RulesOf(k)[i].v).v),
                                    NumbersOf(k), OutcomesOf(k)[i])

\* an index past the end of the list in the first rule, a match in the second
C17_MatchAfterPathError ==
    \E k \in DOMAIN ret :
        /\ Len(OutcomesOf(k)) = 2
        /\ RulesOf(k)[1] = Rule("rows.2")
        /\ OutcomesOf(k)[1] = [hit |-> FALSE, missing |-> "path_error"]
        /\ RulesOf(k)[2] = Rule("rows.1")
        /\ OutcomesOf(k)[2].hit

(***************************************************************************)
(* Properties of the batch health-check and the report, over Spec.         *)
(***************************************************************************)
\* The preferred_script strings of all the cases of the suite.
AllScripts ==
    LET cases == Get(suite.v, "cases", JList(<< >>)).v
    IN { cases[i].v.preferred_script.v :
            i \in { j \in DOMAIN cases :
                       /\ cases[j].t = "dict"
                       /\ Get(cases[j].v, "preferred_script", None).t = "str"
                       /\ Get(cases[j].v, "preferred_script", None).v # "" } }

\* how often the script was started with --format json alone
BareRuns(script) ==
    Cardinality({ i \in DOMAIN proc_log : proc_log[i] = [script |-> script, mode |-> "bare"] })

\* The script exists, exits with 0 and prints a JSON value.
InGoodHealth(script) ==
    /\ env.scripts[script].exists
    /\ env.scripts[script].health.kind = "done"
    /\ env.scripts[script].health.returncode = 0
    /\ env.scripts[script].health.stdout.t = "json"

\* All selected cases were scored and the requested health-check was entered.
HealthCheckEntered ==
    /\ WellFormed /\ Loadable
    /\ args.check_scripts
    /\ pc \in { "summary", "built", "done", "error" }
    /\ Len(case_results) = Len(SelectedCases(suite.v, args))

\* C18: when the health-check is requested, every distinct preferred_script of
\* any case of the suite, selected or not, is executed exactly once with
\* --format json and no input (a script that does not exist cannot be started
\* and is reported as failed); a script's result is passed iff the script
\* exists, exits with 0 and prints non-empty valid JSON, and the health-check
\* passes iff every result passed.
C18_EveryScriptCheckedOnce ==
    HealthCheckEntered =>
        /\ exc = ""
        /\ exc = "" =>
              /\ \A s \in AllScripts :
                    /\ BareRuns(s) = (IF env.scripts[s].exists THEN 1 ELSE 0)
                    /\ Cardinality({ i \in DOMAIN script_checks.results :
                                        script_checks.results[i].script = s }) = 1
              /\ \A i \in DOMAIN proc_log :
                    proc_log[i].mode = "bare" => proc_log[i].script \in AllScripts
              /\ \A i \in DOMAIN script_checks.results :
                    /\ script_checks.results[i].script \in AllScripts
                    /\ script_checks.results[i].passed
                          <=> InGoodHealth(script_checks.results[i].script)
              /\ script_checks.passed
                    <=> \A i \in DOMAIN script_checks.results : script_checks.results[i].passed

\* The responses as they load from the source of the run.
LoadedResponses ==
    LET cases == SelectedCases(suite.v, args)
    IN LoadResponses(source, [ i \in DOMAIN cases |-> Get(cases[i], "id", "None") ]).v

\* The result of a case scored on its own: from the case, its template and its
\* response, the two thresholds of the run and the external computations.
ScoredAlone(case) ==
    score_case(case, TemplateOf(suite.v, case), ResponseOf(responses, case),
               args.min_case_score, args.allow_missing_cases, env).result

\* The health-check as the suite and the external computations determine it.
HealthOfInputs ==
    IF args.check_scripts THEN execute_preferred_scripts(suite.v, env).value
    ELSE ScriptChecksDisabled

FailureConditions(k) ==
    LET script == env.scripts[ret[k].call.preferred_script]
        input == Get(ret[k].call.validation, "input", None)
        extract == Get(ret[k].call.validation, "extract", None)
    IN << [ applies |-> ~ script.exists, reason |-> "script_not_found" ],
          [ applies |-> input.t # "str" \/ input.v \in { "", " " },
            reason |-> "invalid_script_validation_input" ],
          [ applies |-> input.t = "str" /\ input.v \notin env.inputs,
            reason |-> "input_not_found" ],
          [ applies |-> extract.t # "list" \/ extract.v = << >>,
            reason |-> "invalid_script_validation_extract" ],
          [ applies |-> script.run.returncode # 0, reason |-> "script_exit" ],
          [ applies |-> script.run.stdout.t = "empty", reason |-> "script_empty_stdout" ],
          [ applies |-> script.run.stdout.t \notin { "empty", "json" },
            reason |-> "script_invalid_json" ],
          [ applies |-> NumbersOf(k) = << >>, reason |-> "no_numeric_values_in_response" ] >>

\* the positions of the conditions that apply
Applying(conditions) == { i \in DOMAIN conditions : conditions[i].applies }

First(S) == CHOOSE i \in S : \A j \in S : i <= j

\* The calls made so far: those that returned and the one that raised.
CallsMade == Len(ret) + (IF pc = "raised" THEN 1 ELSE 0)

\* C20: the failure conditions are applied in a fixed order and the call
\* returns (0.0, False, reason) for the first that applies: script file absent,
\* invalid input descriptor, input file absent, invalid extract list, then after
\* the run non-zero exit N, empty standard output, invalid JSON, no number in
\* the response.  The process is started at most once per call, and not at all
\* when one of the first four conditions applies.
C20_FirstFailureInOrder ==
    /\ Len(proc_log) <= CallsMade
    /\ \A k \in DOMAIN ret :
          /\ Applying(FailureConditions(k)) # {} =>
                /\ ret[k].result.score = RZero
                /\ ~ ret[k].result.passed
                /\ ret[k].result.details.m
                      = FailureConditions(k)[First(Applying(FailureConditions(k)))].reason
                /\ ret[k].result.details.m = "script_exit" =>
                      ret[k].result.details.n
                          = env.scripts[ret[k].call.preferred_script].run.returncode
                /\ ret[k].result.ran <=> First(Applying(FailureConditions(k))) > 4
          /\ Applying(FailureConditions(k)) = {} =>
                ret[k].result.ran /\ ret[k].result.details.m = "matched"

\* the input file and the extract list are both wrong and the script would
\* exit with 1: input_not_found is reported and no process was started
C20_InputNotFoundBeforeExtract ==
    \E k \in DOMAIN ret :
        /\ Cardinality(Applying(FailureConditions(k))) >= 3
        /\ FailureConditions(k)[3].applies /\ FailureConditions(k)[4].applies
        /\ FailureConditions(k)[5].applies
        /\ ret[k].result.details.m = "input_not_found"
        /\ proc_log = << >>
====
